---- MODULE Spec2Model ----
(***************************************************************************)
(* Model of architecture/infrastructure/ci-cd.py: the CIConfig dataclass,  *)
(* its to_github_actions renderer, generate_workflow and main.             *)
(*                                                                         *)
(* The file is either run as a script (line 130: sys.exit(main())) or      *)
(* imported, in which case a client holds CIConfig objects, renders them,  *)
(* mutates the documents it got back and calls generate_workflow.          *)
(*                                                                         *)
(* Python containers have identity: a CIConfig's platforms field and a     *)
(* document's matrix "os" entry are references into heap.  Everything else *)
(* of a document is built from literals at each call and is held by value. *)
(***************************************************************************)
EXTENDS Integers, Sequences, FiniteSets, TLC

VARIABLES
    pc,        \* "main": script about to run main; "client": imported; "exited"
    argv,      \* sys.argv
    exit_code, \* <<>> while running, <<n>> once main has returned n
    stdout,    \* the lines printed, each a sequence of strings
    fs,        \* the file system: directories made and files written
    heap,      \* address -> tuple or list object
    configs,   \* every CIConfig object constructed so far
    held,      \* the indices of configs the client holds a reference to
    rendered,  \* one entry per to_github_actions call, in call order
    appends    \* how many times the client appended to a returned os list

vars == <<pc, argv, exit_code, stdout, fs, heap, configs, held, rendered, appends>>

(* ------------------------------ bounds --------------------------------- *)

MaxPlatforms == 2
MaxRenders == 2
MaxAppends == 1

(* ------------------------------ inputs --------------------------------- *)

Labels == {"ubuntu-latest", "macos-latest"}

VersionArgs == {<<"stable", "1.70.0">>, <<"1.70.0", "1.70.0">>}

SeqsUpTo(S, n) == UNION {[1..k -> S] : k \in 0..n}

Commands == {"generate", "validate", "frobnicate"}

Argvs == {<<"ci-cd.py">>} \cup {<<"ci-cd.py", c>> : c \in Commands}
            \cup {<<"ci-cd.py", c, "extra">> : c \in Commands}

OutputPaths == {<<".github", "workflows", "ci.yml">>, <<"ci.yml">>}

Appended == "windows-latest"

(* ------------------------------ CIConfig ------------------------------- *)

\* The class-level default of platforms: one tuple object shared by every
\* CIConfig constructed without a platforms argument.
DefaultAddr == <<"platforms", 0>>

DefaultPlatforms ==
    [kind |-> "tuple",
     items |-> <<"ubuntu-latest", "macos-latest", "windows-latest">>]

DefaultRustVersion == "stable"

DefaultRustMsrv == "1.70.0"

\* The dataclass __init__: no validation, the fields are stored as given.
CIConfig(rust_version, rust_msrv, platforms) ==
    [rust_version |-> rust_version, rust_msrv |-> rust_msrv,
     platforms |-> platforms]

RECURSIVE Dedup(_)
Dedup(s) ==
    IF s = <<>> THEN <<>>
    ELSE LET d == Dedup(SubSeq(s, 1, Len(s) - 1))
             x == s[Len(s)]
         IN  IF \E n \in 1..Len(d) : d[n] = x THEN d ELSE Append(d, x)

\* Mutant of list: list(dict.fromkeys(x)), which drops repeated entries.
list_dedup(x) == [kind |-> "list", items |-> Dedup(x.items)]

\* list(x): a new list object with the items of x, in order.
list(x) == [kind |-> "list", items |-> x.items]

Checkout == [uses |-> "actions/checkout@v4"]

Named(name, run) == [name |-> name, run |-> run]

\* Mutant of TestSteps: the tests run before the build.
TestSteps_reordered ==
    << Checkout,
       [name |-> "Install Rust", uses |-> "dtolnay/rust-toolchain@master",
        with |-> [toolchain |-> "${{ matrix.rust }}"]],
       Named("Test", "cargo test --workspace"),
       Named("Build", "cargo build --workspace") >>

TestSteps ==
    << Checkout,
       [name |-> "Install Rust", uses |-> "dtolnay/rust-toolchain@master",
        with |-> [toolchain |-> "${{ matrix.rust }}"]],
       Named("Build", "cargo build --workspace"),
       Named("Test", "cargo test --workspace") >>

LintSteps ==
    << Checkout,
       [name |-> "Install Rust", uses |-> "dtolnay/rust-toolchain@stable",
        with |-> [components |-> "rustfmt, clippy"]],
       Named("Format", "cargo fmt --all -- --check"),
       Named("Clippy", "cargo clippy --workspace -- -D warnings") >>

WasmSteps ==
    << Checkout,
       [name |-> "Install Rust", uses |-> "dtolnay/rust-toolchain@stable",
        with |-> [targets |-> "wasm32-unknown-unknown"]],
       Named("Install wasm-pack", "cargo install wasm-pack"),
       Named("Build WASM", "wasm-pack build crates/utf8dok-wasm --target web") >>

\* Mutant of RustMatrix: equal versions are listed once.
RustMatrix_dedup(self) ==
    IF self.rust_version = self.rust_msrv THEN <<self.rust_version>>
    ELSE <<self.rust_version, self.rust_msrv>>

\* "rust": [self.rust_version, self.rust_msrv]
RustMatrix(self) == <<self.rust_version, self.rust_msrv>>

\* Mutant of TestJob: the install step is pinned to the configured version
\* instead of the matrix reference.
TestJob_pinned(self, os) ==
    ("runs-on" :> "${{ matrix.os }}") @@
    [name |-> "Test",
     strategy |-> [matrix |-> [os |-> os, rust |-> RustMatrix(self)]],
     steps |-> [TestSteps EXCEPT ![2].with.toolchain = self.rust_version]]

\* The test job; os is the reference to the list made for "os".
TestJob(self, os) ==
    ("runs-on" :> "${{ matrix.os }}") @@
    [name |-> "Test",
     strategy |-> [matrix |-> [os |-> os, rust |-> RustMatrix(self)]],
     steps |-> TestSteps]

\* Mutant of LintJob: the lint job is given a matrix too.
LintJob_matrixed ==
    ("runs-on" :> "ubuntu-latest") @@
    [name |-> "Lint", steps |-> LintSteps,
     strategy |-> [matrix |-> [rust |-> <<"stable">>]]]

LintJob ==
    ("runs-on" :> "ubuntu-latest") @@ [name |-> "Lint", steps |-> LintSteps]

WasmJob ==
    ("runs-on" :> "ubuntu-latest") @@ [name |-> "WASM Build", steps |-> WasmSteps]

\* Mutant of Jobs: the wasm job is left out.
Jobs_nowasm(self, os) ==
    [test |-> TestJob(self, os), lint |-> LintJob]

Jobs(self, os) ==
    [test |-> TestJob(self, os), lint |-> LintJob, wasm |-> WasmJob]

Workflow(self, os) ==
    [name |-> "CI",
     on |-> [push |-> [branches |-> <<"main">>],
             pull_request |-> [branches |-> <<"main">>]],
     env |-> [CARGO_TERM_COLOR |-> "always"],
     jobs |-> Jobs(self, os)]

\* Mutant of to_github_actions: "os": self.platforms, the document shares the
\* configuration's own container.
to_github_actions_alias(self, h, fresh) ==
    [doc |-> Workflow(self, self.platforms), heap |-> h]

\* Mutant of to_github_actions: a memoised render, which hands out the
\* document of the first call for an equal configuration again.
to_github_actions_cached(self, h, fresh) ==
    LET prior == {k \in DOMAIN rendered : configs[rendered[k].self] = self}
    IN  IF prior = {}
        THEN [doc |-> Workflow(self, fresh),
              heap |-> (fresh :> list(h[self.platforms])) @@ h]
        ELSE [doc |-> rendered[CHOOSE k \in prior : \A m \in prior : k <= m].doc,
              heap |-> h]

\* self.to_github_actions() on heap h, with fresh the address of the list that
\* list(self.platforms) allocates: the document and the heap after the call.
to_github_actions(self, h, fresh) ==
    [doc |-> Workflow(self, fresh),
     heap |-> (fresh :> list(h[self.platforms])) @@ h]

\* A document with its os reference replaced by the items it refers to in h.
Resolve(doc, h) ==
    [doc EXCEPT !.jobs.test.strategy.matrix.os = h[@].items]

(* --------------------------- generate_workflow -------------------------- *)

\* output_path.parent and its ancestors, as mkdir(parents=True) makes them.
Parents(path) == {SubSeq(path, 1, k) : k \in 1..(Len(path) - 1)}

\* The three lines generate_workflow prints.
Summary(config, h, output_path) ==
    << <<"Generated CI configuration for: ">> \o h[config.platforms].items,
       <<"Rust versions: ", config.rust_version, ", MSRV: ", config.rust_msrv>>,
       <<"Output would be written to: ">> \o output_path >>

\* The state after generate_workflow(output_path) run in state s.
generate_workflow(s, output_path) ==
    LET config == CIConfig(DefaultRustVersion, DefaultRustMsrv, DefaultAddr)
        r == to_github_actions(config, s.heap, <<"os", Len(s.rendered) + 1>>)
    IN  [s EXCEPT
           !.configs = Append(@, config),
           !.heap = r.heap,
           !.rendered = Append(@, [self |-> Len(s.configs) + 1,
                                   doc |-> r.doc,
                                   returned |-> Resolve(r.doc, r.heap)]),
           !.fs = [@ EXCEPT !.dirs = @ \cup Parents(output_path)],
           !.stdout = @ \o Summary(config, r.heap, output_path)]

(* --------------------------------- main --------------------------------- *)

Usage == <<"utf8dok CI/CD Infrastructure as Code">>

\* Mutant of main: the unimplemented validate command reports failure.
main_validate_fails(args) ==
    IF Len(args) < 2
    THEN [code |-> 1, prints |-> <<Usage>>, calls |-> <<>>]
    ELSE LET command == args[2]
         IN  IF command = "generate"
             THEN [code |-> 0, prints |-> <<>>,
                   calls |-> << <<".github", "workflows", "ci.yml">> >>]
             ELSE IF command = "validate"
             THEN [code |-> 1, prints |-> << <<"Validation not yet implemented">> >>,
                   calls |-> <<>>]
             ELSE [code |-> 1, prints |-> << <<"Unknown command: ", command>> >>,
                   calls |-> <<>>]

\* main's own decisions on sys.argv: the exit code, what main itself prints,
\* and the generate_workflow calls it makes.
main(args) ==
    IF Len(args) < 2
    THEN [code |-> 1, prints |-> <<Usage>>, calls |-> <<>>]
    ELSE LET command == args[2]
         IN  IF command = "generate"
             THEN [code |-> 0, prints |-> <<>>,
                   calls |-> << <<".github", "workflows", "ci.yml">> >>]
             ELSE IF command = "validate"
             THEN [code |-> 0, prints |-> << <<"Validation not yet implemented">> >>,
                   calls |-> <<>>]
             ELSE [code |-> 1, prints |-> << <<"Unknown command: ", command>> >>,
                   calls |-> <<>>]

(* ------------------------------ the machine ----------------------------- *)

State ==
    [heap |-> heap, configs |-> configs, rendered |-> rendered,
     fs |-> fs, stdout |-> stdout]

Install(s) ==
    /\ heap' = s.heap
    /\ configs' = s.configs
    /\ rendered' = s.rendered
    /\ fs' = s.fs
    /\ stdout' = s.stdout

PlatformArgs ==
    {DefaultPlatforms} \cup
    {[kind |-> "list", items |-> p] : p \in SeqsUpTo(Labels, MaxPlatforms)}

\* CIConfig(...) called by the client with the platforms argument arg; the
\* default is the shared tuple, an explicit argument is an object of its own.
Construct(v, arg, n) ==
    CIConfig(v[1], v[2], IF arg = DefaultPlatforms THEN DefaultAddr
                         ELSE <<"platforms", n>>)

InitScript ==
    /\ pc = "main"
    /\ argv \in Argvs
    /\ configs = <<>>
    /\ held = {}
    /\ heap = (DefaultAddr :> DefaultPlatforms)

InitClient ==
    /\ pc = "client"
    /\ argv = <<>>
    /\ \E v1 \in VersionArgs, v2 \in VersionArgs,
          p1 \in PlatformArgs, p2 \in PlatformArgs :
          /\ configs = <<Construct(v1, p1, 1), Construct(v2, p2, 2)>>
          /\ heap = (DefaultAddr :> DefaultPlatforms)
                      @@ (<<"platforms", 1>> :> p1) @@ (<<"platforms", 2>> :> p2)
    /\ held = {1, 2}

Init ==
    /\ InitScript \/ InitClient
    /\ exit_code = <<>>
    /\ stdout = <<>>
    /\ fs = [dirs |-> {}, files |-> {}]
    /\ rendered = <<>>
    /\ appends = 0

\* The script: sys.exit(main()).
RunMain ==
    /\ pc = "main"
    /\ LET m == main(argv)
           s1 == [State EXCEPT !.stdout = @ \o m.prints]
           s2 == IF m.calls = <<>> THEN s1 ELSE generate_workflow(s1, m.calls[1])
       IN  /\ Install(s2)
           /\ exit_code' = <<m.code>>
    /\ pc' = "exited"
    /\ UNCHANGED <<argv, held, appends>>

\* The client calls configs[i].to_github_actions() and keeps the document.
Render(i) ==
    /\ pc = "client"
    /\ Len(rendered) < MaxRenders
    /\ LET r == to_github_actions(configs[i], heap, <<"os", Len(rendered) + 1>>)
       IN  /\ heap' = r.heap
           /\ rendered' = Append(rendered, [self |-> i, doc |-> r.doc,
                                            returned |-> Resolve(r.doc, r.heap)])
    /\ UNCHANGED <<pc, argv, exit_code, stdout, fs, configs, held, appends>>

\* The client mutates a document it was given:
\* doc["jobs"]["test"]["strategy"]["matrix"]["os"].append(x).
\* A tuple has no append: the call raises and nothing changes.
AppendOs(j) ==
    /\ pc = "client"
    /\ appends < MaxAppends
    /\ rendered[j].self \in held
    /\ LET ref == rendered[j].doc.jobs.test.strategy.matrix.os
       IN  /\ heap[ref].kind = "list"
           /\ heap' = [heap EXCEPT ![ref].items = Append(@, Appended)]
    /\ appends' = appends + 1
    /\ UNCHANGED <<pc, argv, exit_code, stdout, fs, configs, held, rendered>>

\* The client calls generate_workflow(output_path).
CallGenerateWorkflow(output_path) ==
    /\ pc = "client"
    /\ Len(rendered) < MaxRenders
    /\ Install(generate_workflow(State, output_path))
    /\ UNCHANGED <<pc, argv, exit_code, held, appends>>

Next ==
    \/ RunMain
    \/ \E i \in held : Render(i)
    \/ \E j \in DOMAIN rendered : AppendOs(j)
    \/ \E p \in OutputPaths : CallGenerateWorkflow(p)

Spec == Init /\ [][Next]_vars

(* ------------------------------ properties ------------------------------ *)

Matrix(r) == r.returned.jobs.test.strategy.matrix

\* The address of the os list of the k-th rendered document.
OsRef(k) == rendered[k].doc.jobs.test.strategy.matrix.os

\* The client has appended to the os list of the k-th rendered document.
Mutated(k) == heap[OsRef(k)].items # Matrix(rendered[k]).os

\* The items of configuration i's platforms, as they are now.
PlatformItems(i) == heap[configs[i].platforms].items

\* The field values of configuration i, as they are now.
FieldValues(i) ==
    <<configs[i].rust_version, configs[i].rust_msrv, PlatformItems(i)>>

IsDefault(i) ==
    FieldValues(i) =
        <<"stable", "1.70.0", <<"ubuntu-latest", "macos-latest", "windows-latest">> >>

HasRepeat(p) == \E m, n \in 1..Len(p) : m # n /\ p[m] = p[n]

\* C1: in every document returned by to_github_actions the test matrix's os
\* dimension equals the configuration's platforms element for element: same
\* length, same order, nothing added, dropped or deduplicated, the empty
\* sequence included.
C1_OsEqualsPlatforms ==
    \A k \in DOMAIN rendered :
        LET os == Matrix(rendered[k]).os
            p == PlatformItems(rendered[k].self)
        IN  /\ Len(os) = Len(p)
            /\ \A n \in 1..Len(p) : os[n] = p[n]

\* An empty platforms sequence and one with a repeated entry have both been
\* rendered.
C1_Witness ==
    /\ \E k \in DOMAIN rendered :
          /\ PlatformItems(rendered[k].self) = <<>>
          /\ Matrix(rendered[k]).os = <<>>
    /\ \E k \in DOMAIN rendered : HasRepeat(PlatformItems(rendered[k].self))

\* C2: the test matrix's rust dimension always has exactly two entries, the
\* first rust_version and the second rust_msrv, also when the two are equal.
C2_RustIsVersionThenMsrv ==
    \A k \in DOMAIN rendered :
        LET rust == Matrix(rendered[k]).rust
            c == configs[rendered[k].self]
        IN  /\ Len(rust) = 2
            /\ rust[1] = c.rust_version
            /\ rust[2] = c.rust_msrv

\* A configuration whose two versions are equal has been rendered, and one
\* whose versions differ.
C2_Witness ==
    /\ \E k \in DOMAIN rendered :
          configs[rendered[k].self].rust_version = configs[rendered[k].self].rust_msrv
    /\ \E k \in DOMAIN rendered :
          configs[rendered[k].self].rust_version # configs[rendered[k].self].rust_msrv

\* C3: rendering is deterministic: any two to_github_actions calls on
\* configurations with equal fields (two objects, or the same object twice)
\* returned structurally equal documents.
C3_Deterministic ==
    \A j, k \in DOMAIN rendered :
        FieldValues(rendered[j].self) = FieldValues(rendered[k].self)
            => rendered[j].returned = rendered[k].returned

\* Two distinct configuration objects with equal fields have both been
\* rendered, and the client has mutated one of the two documents.
C3_Witness ==
    \E j, k \in DOMAIN rendered :
        /\ rendered[j].self # rendered[k].self
        /\ FieldValues(rendered[j].self) = FieldValues(rendered[k].self)
        /\ rendered[j].returned = rendered[k].returned
        /\ Mutated(j)

\* C4: the lint and wasm jobs never have a strategy or matrix and run on one
\* fixed environment; only the test job declares a matrix, and it declares
\* the two dimensions os and rust as they are, not their cross product.
C4_OnlyTestIsMatrixed ==
    \A k \in DOMAIN rendered :
        LET jobs == rendered[k].returned.jobs
        IN  /\ \A n \in {"lint", "wasm"} :
                  /\ "strategy" \notin DOMAIN jobs[n]
                  /\ "matrix" \notin DOMAIN jobs[n]
                  /\ jobs[n]["runs-on"] = "ubuntu-latest"
            /\ {n \in DOMAIN jobs : "strategy" \in DOMAIN jobs[n]} = {"test"}
            /\ DOMAIN jobs.test.strategy = {"matrix"}
            /\ DOMAIN jobs.test.strategy.matrix = {"os", "rust"}
            /\ Len(jobs.test.strategy.matrix.os)
                  = Len(PlatformItems(rendered[k].self))
            /\ Len(jobs.test.strategy.matrix.rust) = 2

\* A configuration with two platforms, whose cross product with the versions
\* has four cells, has been rendered.
C4_Witness ==
    \E k \in DOMAIN rendered :
        /\ Len(Matrix(rendered[k]).os) = 2
        /\ "strategy" \notin DOMAIN rendered[k].returned.jobs.lint

IsCheckout(s) == DOMAIN s = {"uses"} /\ s.uses = "actions/checkout@v4"

IsInstall(s, action, key, value) ==
    /\ DOMAIN s = {"name", "uses", "with"}
    /\ s.uses = action
    /\ DOMAIN s.with = {key}
    /\ s.with[key] = value

IsRun(s, command) == DOMAIN s = {"name", "run"} /\ s.run = command

\* C5: in every rendered document each job's steps are the authored ones in
\* the authored order, whatever the configuration: test = checkout, install
\* the toolchain of the matrix rust value, build, test; lint = checkout,
\* install, format check, clippy with warnings as errors; wasm = checkout,
\* install with the wasm target, install wasm-pack, wasm-pack build.
C5_StepsInAuthoredOrder ==
    \A k \in DOMAIN rendered :
        LET jobs == rendered[k].returned.jobs
            t == jobs.test.steps
            l == jobs.lint.steps
            w == jobs.wasm.steps
        IN  /\ Len(t) = 4
            /\ IsCheckout(t[1])
            /\ IsInstall(t[2], "dtolnay/rust-toolchain@master", "toolchain",
                         "${{ matrix.rust }}")
            /\ IsRun(t[3], "cargo build --workspace")
            /\ IsRun(t[4], "cargo test --workspace")
            /\ Len(l) = 4
            /\ IsCheckout(l[1])
            /\ IsInstall(l[2], "dtolnay/rust-toolchain@stable", "components",
                         "rustfmt, clippy")
            /\ IsRun(l[3], "cargo fmt --all -- --check")
            /\ IsRun(l[4], "cargo clippy --workspace -- -D warnings")
            /\ Len(w) = 4
            /\ IsCheckout(w[1])
            /\ IsInstall(w[2], "dtolnay/rust-toolchain@stable", "targets",
                         "wasm32-unknown-unknown")
            /\ IsRun(w[3], "cargo install wasm-pack")
            /\ IsRun(w[4], "wasm-pack build crates/utf8dok-wasm --target web")

\* Two configurations that differ in both versions and platforms have been
\* rendered.
C5_Witness ==
    \E j, k \in DOMAIN rendered :
        /\ configs[rendered[j].self].rust_version
              # configs[rendered[k].self].rust_version
        /\ PlatformItems(rendered[j].self) # PlatformItems(rendered[k].self)
        /\ Len(rendered[j].returned.jobs.test.steps) = 4

\* C6: every rendered document has exactly the three jobs test, lint and
\* wasm; for the default configuration the test matrix has three os entries
\* and two rust entries.
C6_ThreeJobs ==
    \A k \in DOMAIN rendered :
        /\ DOMAIN rendered[k].returned.jobs = {"test", "lint", "wasm"}
        /\ Cardinality(DOMAIN rendered[k].returned.jobs) = 3
        /\ IsDefault(rendered[k].self) =>
              /\ Len(Matrix(rendered[k]).os) = 3
              /\ Len(Matrix(rendered[k]).rust) = 2

\* The zero-argument configuration of generate_workflow and a non-default
\* configuration of the client have both been rendered.
C6_Witness ==
    /\ \E k \in DOMAIN rendered :
          /\ rendered[k].self \notin held
          /\ IsDefault(rendered[k].self)
          /\ Len(Matrix(rendered[k]).os) = 3
    /\ \E k \in DOMAIN rendered : ~IsDefault(rendered[k].self)

\* C7: main's exit code depends on the command alone: no argument gives the
\* usage text and 1, generate gives 0, validate gives "not yet implemented"
\* and 0, anything else gives "unknown command" and 1; and a run that is not
\* a generate run constructs and renders no configuration.
C7_ExitCodeByCommand ==
    pc = "exited" =>
        /\ exit_code =
              <<IF Len(argv) >= 2 /\ argv[2] \in {"generate", "validate"}
                THEN 0 ELSE 1>>
        /\ Len(argv) < 2 => stdout = <<Usage>>
        /\ Len(argv) >= 2 /\ argv[2] = "validate"
              => stdout = << <<"Validation not yet implemented">> >>
        /\ Len(argv) >= 2 /\ argv[2] \notin {"generate", "validate"}
              => stdout = << <<"Unknown command: ", argv[2]>> >>
        /\ ~(Len(argv) >= 2 /\ argv[2] = "generate")
              => configs = <<>> /\ rendered = <<>>

\* A validate run has exited.
C7_Witness ==
    /\ pc = "exited"
    /\ Len(argv) >= 2
    /\ argv[2] = "validate"
    /\ exit_code = <<0>>

\* C8: a generate run that has exited with 0 constructed one default
\* configuration, rendered it once and handed the rendered document to the
\* writer for .github/workflows/ci.yml.
C8_GenerateWritesDocument ==
    (pc = "exited" /\ Len(argv) >= 2 /\ argv[2] = "generate") =>
        /\ exit_code = <<0>>
        /\ Len(configs) = 1
        /\ IsDefault(1)
        /\ Len(rendered) = 1
        /\ \E f \in fs.files :
              /\ f.path = <<".github", "workflows", "ci.yml">>
              /\ f.content = rendered[1].returned

\* What a render of configuration i would return now.
RenderNow(i) ==
    LET r == to_github_actions(configs[i], heap, <<"os", Len(rendered) + 1>>)
    IN  Resolve(r.doc, r.heap)

\* Every document owns its os list: no two documents share one, and none is
\* a configuration's platforms container.
FreshlyOwned ==
    /\ \A j, k \in DOMAIN rendered : j # k => OsRef(j) # OsRef(k)
    /\ \A k \in DOMAIN rendered, i \in DOMAIN configs :
          OsRef(k) # configs[i].platforms

\* C9: a configuration never changes after construction: no step (a render,
\* a generate_workflow run, a mutation of a returned document) changes the
\* fields of any configuration or what a later render of it returns, and
\* every render returns a freshly owned document.
C9_ConfigImmutable ==
    [][/\ \A i \in DOMAIN configs :
             /\ configs'[i] = configs[i]
             /\ heap'[configs[i].platforms] = heap[configs[i].platforms]
             /\ RenderNow(i)' = RenderNow(i)
       /\ FreshlyOwned']_vars

\* A document rendered from a configuration holding a list was mutated, and
\* the same configuration was rendered a second time.
C9_Witness ==
    \E j, k \in DOMAIN rendered :
        /\ j # k
        /\ rendered[j].self = rendered[k].self
        /\ heap[configs[rendered[j].self].platforms].kind = "list"
        /\ Mutated(j)
        /\ rendered[k].returned = RenderNow(rendered[k].self)

WithoutMatrix(d) ==
    [d EXCEPT !.jobs.test.strategy.matrix = [os |-> <<>>, rust |-> <<>>]]

\* C10: the configuration shows only in the test matrix: any two rendered
\* documents agree everywhere outside jobs.test.strategy.matrix, and the
\* name, the push and pull_request triggers on main, CARGO_TERM_COLOR, the
\* runs-on of every job and the matrix reference of the install step are the
\* fixed ones.
C10_OnlyMatrixVaries ==
    \A j, k \in DOMAIN rendered :
        LET d == rendered[j].returned
        IN  /\ WithoutMatrix(d) = WithoutMatrix(rendered[k].returned)
            /\ d.name = "CI"
            /\ DOMAIN d.on = {"push", "pull_request"}
            /\ d.on.push = [branches |-> <<"main">>]
            /\ d.on.pull_request = [branches |-> <<"main">>]
            /\ d.env = [CARGO_TERM_COLOR |-> "always"]
            /\ d.jobs.test["runs-on"] = "${{ matrix.os }}"
            /\ d.jobs.lint["runs-on"] = "ubuntu-latest"
            /\ d.jobs.wasm["runs-on"] = "ubuntu-latest"
            /\ d.jobs.test.steps[2].with.toolchain = "${{ matrix.rust }}"

\* Two documents with different os and different rust dimensions have been
\* rendered.
C10_Witness ==
    \E j, k \in DOMAIN rendered :
        /\ Matrix(rendered[j]).os # Matrix(rendered[k]).os
        /\ Matrix(rendered[j]).rust # Matrix(rendered[k]).rust
        /\ WithoutMatrix(rendered[j].returned) = WithoutMatrix(rendered[k].returned)

====
